---- MODULE Spec2Model ----
(***************************************************************************)
(* Model of the AVL-style binary search tree of src/src/tree.rs.           *)
(*                                                                         *)
(* A TreeNode<T> is modelled as a tuple: Leaf is the empty tuple and       *)
(* Node(value, left, right) is <<value, left, right>>.  T is instantiated  *)
(* with small integers under their usual order.  Heights stay far below    *)
(* the i32 range, so the `as i32` casts of the source never wrap here.     *)
(*                                                                         *)
(* The singly linked list of src/src/list.rs is modelled the same way: Nil *)
(* is the empty tuple and Cons(value, next) is <<value, next>>.  A         *)
(* reference to a node of a list is the node's depth: the number of next   *)
(* links between the head and it.                                          *)
(***************************************************************************)
EXTENDS Integers, Sequences, FiniteSets, TLC

VARIABLES tree, other, op, arg, prev, log, op2, prev2, rotated, vec, idx, out, res,
          list, pos, at

vars == <<tree, other, op, arg, prev, log, op2, prev2, rotated, vec, idx, out, res,
          list, pos, at>>

(***************************************************************************)
(* Bounds of the model.                                                    *)
(***************************************************************************)
\* Values inserted into a tree grown from empty are drawn from 1..MaxVal.
MaxVal == 6

Vals == 1..MaxVal

\* Input vectors of From<Vec<T>> have at most MaxLen elements of Vals.
MaxLen == 4

\* Arbitrary trees built with the node constructor hold values of
\* 1..MaxAnyVal and have at most MaxNodes nodes (MaxEqNodes where two trees
\* are drawn at once).
MaxAnyVal == 2

MaxNodes == 4

MaxEqNodes == 2

\* Trees handed to validate hold values of 1..MaxValidateVal and have at most
\* MaxValidateNodes nodes.
MaxValidateVal == 3

MaxValidateNodes == 4

\* validate is also handed every binary search tree of at most MaxShapeNodes
\* nodes, of any shape, holding the values 1..n.
MaxShapeNodes == 6

AnyVals == 1..MaxAnyVal

(***************************************************************************)
(* The node type.                                                          *)
(***************************************************************************)
Leaf == <<>>

Node(value, left, right) == <<value, left, right>>

\* The value Default::default() gives, which mem::take leaves behind.
Default == Leaf

(***************************************************************************)
(* Provided functions.                                                     *)
(***************************************************************************)
Max(a, b) == IF a >= b THEN a ELSE b

Abs(x) == IF x < 0 THEN -x ELSE x

RECURSIVE height(_)
height(t) ==
    IF t = Leaf THEN 0
    ELSE 1 + Max(height(t[2]), height(t[3]))

\* Option<&T> is modelled as a tuple: None is <<>> and Some(x) is <<x>>.
None == <<>>

Some(x) == <<x>>

RECURSIVE is_bst_helper(_, _, _)
is_bst_helper(t, min, max) ==
    IF t = Leaf THEN TRUE
    ELSE IF min # None /\ t[1] <= min[1] THEN FALSE
    ELSE IF max # None /\ t[1] >= max[1] THEN FALSE
    ELSE is_bst_helper(t[2], min, Some(t[1])) /\ is_bst_helper(t[3], Some(t[1]), max)

\* is_bst that compares every node with its two children only.
RECURSIVE is_bst_direct(_)
is_bst_direct(t) ==
    IF t = Leaf THEN TRUE
    ELSE /\ t[2] # Leaf => t[2][1] < t[1]
         /\ t[3] # Leaf => t[3][1] > t[1]
         /\ is_bst_direct(t[2])
         /\ is_bst_direct(t[3])

is_bst(t) == is_bst_helper(t, None, None)

\* is_balanced with a strict comparison: a height difference of 1 counts as
\* unbalanced.
RECURSIVE is_balanced_strict(_)
is_balanced_strict(t) ==
    IF t = Leaf THEN TRUE
    ELSE Abs(height(t[2]) - height(t[3])) < 1
         /\ is_balanced_strict(t[2]) /\ is_balanced_strict(t[3])

RECURSIVE is_balanced(_)
is_balanced(t) ==
    IF t = Leaf THEN TRUE
    ELSE LET left_height == height(t[2])
             right_height == height(t[3])
             diff == Abs(left_height - right_height)
         IN diff <= 1 /\ is_balanced(t[2]) /\ is_balanced(t[3])

validate(t) == is_bst(t) /\ is_balanced(t)

(***************************************************************************)
(* Required functions.                                                     *)
(***************************************************************************)
\* balance_factor with the operands exchanged: right height minus left.
balance_factor_swapped(t) ==
    IF t = Leaf THEN 0
    ELSE height(t[3]) - height(t[2])

balance_factor(t) ==
    IF t = Leaf THEN 0
    ELSE height(t[2]) - height(t[3])

\* left_rotate that leaves the old value at the root and moves the promoted
\* value down instead of exchanging them.
left_rotate_keep_value(t) ==
    IF t = Leaf THEN t
    ELSE IF t[3] = Leaf THEN Node(t[1], t[2], Default)
    ELSE Node(t[1], Node(t[3][1], t[2], t[3][2]), t[3][3])

\* left_rotate that takes the left child before it looks at the pivot, and so
\* loses it when the pivot is a Leaf.
left_rotate_takes_left(t) ==
    IF t = Leaf THEN t
    ELSE IF t[3] = Leaf THEN Node(t[1], Default, Default)
    ELSE Node(t[3][1], Node(t[1], t[2], t[3][2]), t[3][3])

\* left_rotate that hands the two subtrees of the new left node over in the
\* wrong order.
left_rotate_swapped(t) ==
    IF t = Leaf THEN t
    ELSE IF t[3] = Leaf THEN Node(t[1], t[2], Default)
    ELSE Node(t[3][1], Node(t[1], t[3][2], t[2]), t[3][3])

\* mem::take(right) leaves Default in the right slot.  When the taken child
\* is a Leaf nothing else happens; otherwise the old value and left child
\* move into a new left node and the taken child's parts are promoted.
left_rotate(t) ==
    IF t = Leaf THEN t
    ELSE LET value == t[1]
             left == t[2]
             taken == t[3]
             right == Default
         IN IF taken = Leaf THEN Node(value, left, right)
            ELSE LET rvalue == taken[1]
                     rleft == taken[2]
                     rright == taken[3]
                 IN Node(rvalue, Node(value, left, rleft), rright)

\* right_rotate that puts the promoted node's right subtree to the right of
\* the old right child.
right_rotate_misplaced(t) ==
    IF t = Leaf THEN t
    ELSE IF t[2] = Leaf THEN Node(t[1], Default, t[3])
    ELSE Node(t[2][1], t[2][2], Node(t[1], t[3], t[2][3]))

\* right_rotate that takes the left child and does not move its right subtree
\* into the new right node.
right_rotate_drops_inner(t) ==
    IF t = Leaf THEN t
    ELSE IF t[2] = Leaf THEN Node(t[1], Default, t[3])
    ELSE Node(t[2][1], t[2][2], Node(t[1], Default, t[3]))

right_rotate(t) ==
    IF t = Leaf THEN t
    ELSE LET value == t[1]
             taken == t[2]
             left == Default
             right == t[3]
         IN IF taken = Leaf THEN Node(value, left, right)
            ELSE LET lvalue == taken[1]
                     lleft == taken[2]
                     lright == taken[3]
                 IN Node(lvalue, lleft, Node(value, lright, right))

(***************************************************************************)
(* Call log.  insert and rebalance return the new tree together with the   *)
(* calls to rebalance, left_rotate and right_rotate they made, in order.   *)
(* A node is named by its path from the root of the tree insert was called *)
(* on: a sequence of "L" and "R".  bf is the balance factor of the node at *)
(* the moment of the call.                                                 *)
(***************************************************************************)
Call(ev, path, bf) == [ev |-> ev, path |-> path, bf |-> bf]

\* rebalance without the inner rotation of the zig-zag cases.
rebalance_single(t, path) ==
    LET bf == balance_factor(t)
        me == <<Call("rebalance", path, bf)>>
    IN IF bf > 1 THEN
           [t |-> right_rotate(t), log |-> me \o <<Call("right_rotate", path, bf)>>]
       ELSE IF bf < -1 THEN
           [t |-> left_rotate(t), log |-> me \o <<Call("left_rotate", path, bf)>>]
       ELSE [t |-> t, log |-> me]

\* rebalance that acts one level late: only on a balance factor beyond 2.
rebalance_late(t, path) ==
    LET bf == balance_factor(t)
        me == <<Call("rebalance", path, bf)>>
    IN IF bf > 2 THEN
           [t |-> right_rotate(t), log |-> me \o <<Call("right_rotate", path, bf)>>]
       ELSE IF bf < -2 THEN
           [t |-> left_rotate(t), log |-> me \o <<Call("left_rotate", path, bf)>>]
       ELSE [t |-> t, log |-> me]

\* rebalance that tests the child's balance factor with the wrong sign, so
\* the inner rotation runs in the straight cases and not in the zig-zag ones.
rebalance_wrong_inner(t, path) ==
    LET bf == balance_factor(t)
        me == <<Call("rebalance", path, bf)>>
    IN IF bf > 1 THEN
           LET inner == t # Leaf /\ balance_factor(t[2]) > 0
               t1 == IF inner THEN Node(t[1], left_rotate(t[2]), t[3]) ELSE t
               l1 == IF inner
                     THEN <<Call("left_rotate", Append(path, "L"), balance_factor(t[2]))>>
                     ELSE <<>>
           IN [t |-> right_rotate(t1),
               log |-> me \o l1 \o <<Call("right_rotate", path, balance_factor(t1))>>]
       ELSE IF bf < -1 THEN
           LET inner == t # Leaf /\ balance_factor(t[3]) < 0
               t1 == IF inner THEN Node(t[1], t[2], right_rotate(t[3])) ELSE t
               l1 == IF inner
                     THEN <<Call("right_rotate", Append(path, "R"), balance_factor(t[3]))>>
                     ELSE <<>>
           IN [t |-> left_rotate(t1),
               log |-> me \o l1 \o <<Call("left_rotate", path, balance_factor(t1))>>]
       ELSE [t |-> t, log |-> me]

rebalance(t, path) ==
    LET bf == balance_factor(t)
        me == <<Call("rebalance", path, bf)>>
    IN IF bf > 1 THEN
           LET inner == t # Leaf /\ balance_factor(t[2]) < 0
               t1 == IF inner THEN Node(t[1], left_rotate(t[2]), t[3]) ELSE t
               l1 == IF inner
                     THEN <<Call("left_rotate", Append(path, "L"), balance_factor(t[2]))>>
                     ELSE <<>>
           IN [t |-> right_rotate(t1),
               log |-> me \o l1 \o <<Call("right_rotate", path, balance_factor(t1))>>]
       ELSE IF bf < -1 THEN
           LET inner == t # Leaf /\ balance_factor(t[3]) > 0
               t1 == IF inner THEN Node(t[1], t[2], right_rotate(t[3])) ELSE t
               l1 == IF inner
                     THEN <<Call("right_rotate", Append(path, "R"), balance_factor(t[3]))>>
                     ELSE <<>>
           IN [t |-> left_rotate(t1),
               log |-> me \o l1 \o <<Call("left_rotate", path, balance_factor(t1))>>]
       ELSE [t |-> t, log |-> me]

RECURSIVE insert(_, _, _)
\* insert that descends to the left on an equal value instead of stopping.
insert_dup(t, value, path) ==
    LET m == IF t = Leaf THEN [t |-> Node(value, Leaf, Leaf), log |-> <<>>]
             ELSE IF t[1] < value THEN
                 LET r == insert(t[3], value, Append(path, "R"))
                 IN [t |-> Node(t[1], t[2], r.t), log |-> r.log]
             ELSE
                 LET l == insert(t[2], value, Append(path, "L"))
                 IN [t |-> Node(t[1], l.t, t[3]), log |-> l.log]
    IN IF ~is_balanced(m.t)
       THEN LET b == rebalance(m.t, path)
            IN [t |-> b.t, log |-> m.log \o b.log]
       ELSE m

insert(t, value, path) ==
    LET m == IF t = Leaf THEN [t |-> Node(value, Leaf, Leaf), log |-> <<>>]
             ELSE IF t[1] < value THEN
                 LET r == insert(t[3], value, Append(path, "R"))
                 IN [t |-> Node(t[1], t[2], r.t), log |-> r.log]
             ELSE IF t[1] > value THEN
                 LET l == insert(t[2], value, Append(path, "L"))
                 IN [t |-> Node(t[1], l.t, t[3]), log |-> l.log]
             ELSE [t |-> t, log |-> <<>>]
    IN IF ~is_balanced(m.t)
       THEN LET b == rebalance(m.t, path)
            IN [t |-> b.t, log |-> m.log \o b.log]
       ELSE m

\* The values of a tree from left to right (an observer, not program code).
RECURSIVE InOrder(_)
InOrder(t) ==
    IF t = Leaf THEN <<>>
    ELSE InOrder(t[2]) \o <<t[1]>> \o InOrder(t[3])

\* PartialEq that compares the stored values in order, not the shape.
eq_by_content(a, b) == InOrder(a) = InOrder(b)

\* impl PartialEq for TreeNode<T>
RECURSIVE eq(_, _)
eq(a, b) ==
    IF a = Leaf /\ b = Leaf THEN TRUE
    ELSE IF a # Leaf /\ b # Leaf THEN a[1] = b[1] /\ eq(a[2], b[2]) /\ eq(a[3], b[3])
    ELSE FALSE

\* Vec::from that pushes the value before the left subtree.
RECURSIVE into_vec_preorder(_)
into_vec_preorder(t) ==
    IF t = Leaf THEN <<>>
    ELSE <<t[1]>> \o into_vec_preorder(t[2]) \o into_vec_preorder(t[3])

\* impl From<TreeNode<T>> for Vec<T>
RECURSIVE into_vec(_)
into_vec(t) ==
    IF t = Leaf THEN <<>>
    ELSE LET vec0 == into_vec(t[2])
             vec1 == Append(vec0, t[1])
         IN vec1 \o into_vec(t[3])

(***************************************************************************)
(* Observers used by the properties (not part of the program).             *)
(***************************************************************************)
RECURSIVE Values(_)
Values(t) ==
    IF t = Leaf THEN {}
    ELSE {t[1]} \cup Values(t[2]) \cup Values(t[3])

RECURSIVE Size(_)
Size(t) ==
    IF t = Leaf THEN 0
    ELSE 1 + Size(t[2]) + Size(t[3])

\* The subtrees of t, t itself included, Leaf excluded.
RECURSIVE Subtrees(_)
Subtrees(t) ==
    IF t = Leaf THEN {}
    ELSE {t} \cup Subtrees(t[2]) \cup Subtrees(t[3])

\* The invariants of the data model, stated node by node.
BstInvariant(t) ==
    \A n \in Subtrees(t) :
        /\ \A x \in Values(n[2]) : x < n[1]
        /\ \A x \in Values(n[3]) : x > n[1]

BalanceInvariant(t) ==
    \A n \in Subtrees(t) : Abs(height(n[2]) - height(n[3])) <= 1

(***************************************************************************)
(* Spec: a tree grown from empty by insert alone.                          *)
(* prev/op/arg/log describe the last call: the tree before it, its name,   *)
(* its argument and the calls it made.                                     *)
(***************************************************************************)
Idle ==
    /\ other = Leaf /\ op2 = "none" /\ prev2 = Leaf /\ rotated = FALSE
    /\ vec = <<>> /\ idx = 0 /\ out = <<>> /\ res = FALSE
    /\ list = <<>> /\ pos = 0 /\ at = 0

Init ==
    /\ tree = Leaf
    /\ op = "new" /\ arg = 0 /\ prev = Leaf /\ log = <<>>
    /\ Idle

Insert(v) ==
    /\ LET r == insert(tree, v, <<>>)
       IN /\ tree' = r.t
          /\ log' = r.log
    /\ op' = "insert" /\ arg' = v /\ prev' = tree
    /\ op2' = op /\ prev2' = prev
    /\ UNCHANGED <<other, rotated, vec, idx, out, res, list, pos, at>>

Next == \E v \in Vals : Insert(v)

Spec == Init /\ [][Next]_vars

(***************************************************************************)
(* Properties of Spec.                                                     *)
(***************************************************************************)
\* C1: after every insert into a tree grown from empty, validate() returns
\* true, and the BST invariant (no duplicates included) and the balance
\* invariant hold at every node.
C1_ValidAfterEveryInsert ==
    /\ validate(tree)
    /\ BstInvariant(tree)
    /\ BalanceInvariant(tree)
    /\ Size(tree) = Cardinality(Values(tree))

\* An insert that rebalanced a node below the root with a double rotation.
C1_Witness ==
    /\ op = "insert"
    /\ Len(log) = 3
    /\ log[1].path # <<>>
    /\ Size(tree) = Size(prev) + 1

\* C3: inserting a value already stored leaves the tree structurally
\* identical and calls neither rebalance nor a rotation.
C3_InsertExistingIsNoOp ==
    (op = "insert" /\ arg \in Values(prev)) => (tree = prev /\ log = <<>>)

\* A stored value below the root of a tree of at least four nodes is inserted
\* again.
C3_Witness ==
    /\ op = "insert"
    /\ arg \in Values(prev)
    /\ arg # prev[1]
    /\ Size(prev) >= 4
    /\ tree = prev

\* ceil(1.44 * log2(n + 2)) for n = 0..20, at index n + 1.
HeightBoundTable == <<2, 3, 3, 4, 4, 5, 5, 5, 5, 5, 6, 6, 6, 6, 6, 6, 7, 7, 7, 7, 7>>

\* The least number of nodes of a tree of height h that is balanced at every
\* node.
RECURSIVE MinAvlNodes(_)
MinAvlNodes(h) ==
    IF h <= 1 THEN h
    ELSE 1 + MinAvlNodes(h - 1) + MinAvlNodes(h - 2)

\* C5: a tree grown from empty by inserts, holding n elements, has height at
\* most ceil(1.44 * log2(n + 2)), and at least the minimal AVL node count of
\* its height.
C5_HeightBound ==
    /\ height(tree) <= HeightBoundTable[Size(tree) + 1]
    /\ Size(tree) >= MinAvlNodes(height(tree))

\* A tree of height 3 with the least number of nodes that height allows.
C5_Witness ==
    /\ op = "insert"
    /\ height(tree) = 3
    /\ Size(tree) = 4

(***************************************************************************)
(* SpecRot: a tree grown from empty by insert, with the public rotations   *)
(* left_rotate and right_rotate applied to its root in between.  rotated   *)
(* records whether a rotation call has changed the tree so far.            *)
(***************************************************************************)
LeftRotate ==
    /\ tree' = left_rotate(tree)
    /\ op' = "left_rotate" /\ arg' = 0 /\ prev' = tree /\ log' = <<>>
    /\ op2' = op /\ prev2' = prev
    /\ rotated' = (rotated \/ tree' # tree)
    /\ UNCHANGED <<other, vec, idx, out, res, list, pos, at>>

RightRotate ==
    /\ tree' = right_rotate(tree)
    /\ op' = "right_rotate" /\ arg' = 0 /\ prev' = tree /\ log' = <<>>
    /\ op2' = op /\ prev2' = prev
    /\ rotated' = (rotated \/ tree' # tree)
    /\ UNCHANGED <<other, vec, idx, out, res, list, pos, at>>

NextRot ==
    \/ \E v \in Vals : Insert(v)
    \/ LeftRotate
    \/ RightRotate

SpecRot == Init /\ [][NextRot]_vars

\* C4 as stated: after any sequence of insert, left_rotate and right_rotate
\* from the empty tree, the BST invariant and the balance invariant hold at
\* every node.
C4_InvariantsAfterEveryPublicOp ==
    BstInvariant(tree) /\ BalanceInvariant(tree)

\* C4 amended: after any such sequence the BST invariant holds at every
\* node; the balance invariant holds at every node as long as no rotation
\* call has changed the tree.
C4_BstAlwaysBalancedUnlessRotated ==
    /\ BstInvariant(tree)
    /\ Size(tree) = Cardinality(Values(tree))
    /\ ~rotated => BalanceInvariant(tree)

\* An insert into a tree that an earlier root rotation left unbalanced.
C4_Witness ==
    /\ op = "insert"
    /\ rotated
    /\ ~BalanceInvariant(prev)
    /\ Size(tree) = Size(prev) + 1
    /\ Size(tree) >= 4

(***************************************************************************)
(* SpecFrom: TreeNode::from(vec) followed by Vec::from(tree).  idx is the  *)
(* number of elements of vec the loop of from has inserted so far.         *)
(***************************************************************************)
RECURSIVE SeqsOfLen(_)
SeqsOfLen(n) ==
    IF n = 0 THEN {<<>>}
    ELSE {Append(s, v) : s \in SeqsOfLen(n - 1), v \in Vals}

Vecs == UNION {SeqsOfLen(n) : n \in 0..MaxLen}

InitFrom ==
    /\ vec \in Vecs
    /\ tree = Default /\ idx = 0 /\ out = <<>>
    /\ op = "new" /\ arg = 0 /\ prev = Leaf /\ log = <<>>
    /\ other = Leaf /\ op2 = "none" /\ prev2 = Leaf /\ rotated = FALSE /\ res = FALSE
    /\ list = <<>> /\ pos = 0 /\ at = 0

\* One iteration of `for elem in vec { tree.insert(elem); }`.
FromStep ==
    /\ op \in {"new", "insert"}
    /\ idx < Len(vec)
    /\ LET r == insert(tree, vec[idx + 1], <<>>)
       IN /\ tree' = r.t
          /\ log' = r.log
    /\ idx' = idx + 1
    /\ op' = "insert" /\ arg' = vec[idx + 1] /\ prev' = tree
    /\ UNCHANGED <<vec, out, other, op2, prev2, rotated, res, list, pos, at>>

\* The loop is over: from returns the tree and Vec::from consumes it.
IntoVec ==
    /\ op \in {"new", "insert"}
    /\ idx = Len(vec)
    /\ out' = into_vec(tree)
    /\ op' = "into"
    /\ UNCHANGED <<vec, idx, tree, arg, prev, log, other, op2, prev2, rotated, res, list, pos, at>>

NextFrom == FromStep \/ IntoVec

SpecFrom == InitFrom /\ [][NextFrom]_vars

Range(s) == {s[i] : i \in DOMAIN s}

\* The elements of a set of integers in ascending order.
RECURSIVE Ascending(_)
Ascending(S) ==
    IF S = {} THEN <<>>
    ELSE LET m == CHOOSE x \in S : \A y \in S : x <= y
         IN <<m>> \o Ascending(S \ {m})

\* The rotation calls of a log, in order, as <<name, path>> pairs.
RECURSIVE Rotations(_)
Rotations(l) ==
    IF l = <<>> THEN <<>>
    ELSE IF Head(l).ev = "rebalance" THEN Rotations(Tail(l))
    ELSE <<<<Head(l).ev, Head(l).path>>>> \o Rotations(Tail(l))

\* C2: Vec::from(TreeNode::from(vec)) is the ascending sequence of the
\* distinct elements of vec, for every vec (empty, single, with repeats).
C2_RoundTrip ==
    op = "into" => out = Ascending(Range(vec))

\* A vector with a repeated value, not in ascending order, has made the round
\* trip.
C2_Witness ==
    /\ op = "into"
    /\ Len(vec) = 4
    /\ Cardinality(Range(vec)) = 3
    /\ vec[1] > vec[2]
    /\ out = Ascending(Range(vec))

\* C6: inserting a < b < c in ascending order into an empty tree makes no
\* rotation on the first two inserts, exactly one rotation, a left_rotate of
\* the root, on the third, and yields Node(b, Node(a), Node(c)) of height 2.
C6_RightRightCase ==
    (Len(vec) >= 3 /\ vec[1] < vec[2] /\ vec[2] < vec[3] /\ op = "insert") =>
        /\ idx \in 1..2 => log = <<>>
        /\ idx = 3 =>
            /\ Rotations(log) = << <<"left_rotate", <<>>>> >>
            /\ tree = Node(vec[2], Node(vec[1], Leaf, Leaf), Node(vec[3], Leaf, Leaf))
            /\ height(tree) = 2

\* The third of three ascending inserts has returned.
C6_Witness ==
    /\ Len(vec) = 3 /\ vec[1] < vec[2] /\ vec[2] < vec[3]
    /\ op = "insert" /\ idx = 3
    /\ Len(log) = 2
    /\ tree[1] = vec[2]

\* C7: inserting c, a, b with a < b < c into an empty tree makes, on the
\* third insert, a left_rotate of the root's left child and then a
\* right_rotate of the root, and yields Node(b, Node(a), Node(c)).
C7_LeftRightCase ==
    (Len(vec) >= 3 /\ vec[2] < vec[3] /\ vec[3] < vec[1] /\ op = "insert") =>
        /\ idx \in 1..2 => log = <<>>
        /\ idx = 3 =>
            /\ Rotations(log) = << <<"left_rotate", <<"L">>>>, <<"right_rotate", <<>>>> >>
            /\ tree = Node(vec[3], Node(vec[2], Leaf, Leaf), Node(vec[1], Leaf, Leaf))

\* The third insert of a c, a, b vector has returned.
C7_Witness ==
    /\ Len(vec) = 3 /\ vec[2] < vec[3] /\ vec[3] < vec[1]
    /\ op = "insert" /\ idx = 3
    /\ Len(log) = 3
    /\ tree[1] = vec[3]

(***************************************************************************)
(* SpecAny: the public rotations applied to the root of an arbitrary tree  *)
(* built with the node constructor (any shape, any values, BST or not).    *)
(* op2 and prev2 describe the call before the last one.                    *)
(***************************************************************************)
RECURSIVE TreesOfSize(_)
TreesOfSize(n) ==
    IF n = 0 THEN {Leaf}
    ELSE UNION {{Node(v, l, r) : v \in AnyVals,
                                 l \in TreesOfSize(k),
                                 r \in TreesOfSize(n - 1 - k)} : k \in 0..(n - 1)}

TreesUpTo(n) == UNION {TreesOfSize(k) : k \in 0..n}

InitAny ==
    /\ tree \in TreesUpTo(MaxNodes)
    /\ op = "node" /\ arg = 0 /\ prev = Leaf /\ log = <<>>
    /\ Idle

NextAny == LeftRotate \/ RightRotate

SpecAny == InitAny /\ [][NextAny]_vars

\* Whether a call of rotation r on tree t finds its pivot child empty (or t
\* itself empty), so that nothing can be promoted.
Misapplied(r, t) ==
    \/ t = Leaf
    \/ r = "left_rotate" /\ t[3] = Leaf
    \/ r = "right_rotate" /\ t[2] = Leaf

OppositeRotations ==
    \/ op2 = "left_rotate" /\ op = "right_rotate"
    \/ op2 = "right_rotate" /\ op = "left_rotate"

\* C8: after left_rotate then right_rotate on the same node, or the reverse,
\* the in-order sequence is that of the tree before the pair, and the tree is
\* structurally equal to it unless the first rotation was a no-op on an
\* empty pivot.
C8_RotationRoundTrip ==
    OppositeRotations =>
        /\ InOrder(tree) = InOrder(prev2)
        /\ ~Misapplied(op2, prev2) => tree = prev2

\* A pair of opposite rotations whose first one really rotated a tree of at
\* least four nodes.
C8_Witness ==
    /\ OppositeRotations
    /\ ~Misapplied(op2, prev2)
    /\ prev # prev2
    /\ Size(prev2) >= 4
    /\ tree = prev2

\* C9: left_rotate on Leaf or on a node with a Leaf right child, and
\* right_rotate on Leaf or on a node with a Leaf left child, leave the whole
\* tree structurally unchanged.
C9_MisappliedRotationIsNoOp ==
    (op \in {"left_rotate", "right_rotate"} /\ Misapplied(op, prev)) => tree = prev

\* A left_rotate on a node that has a left child but no right child.
C9_Witness ==
    /\ op = "left_rotate"
    /\ prev # Leaf
    /\ prev[3] = Leaf
    /\ prev[2] # Leaf
    /\ tree = prev

(***************************************************************************)
(* SpecEq: two arbitrary trees compared with ==.                           *)
(***************************************************************************)
InitEq ==
    /\ tree \in TreesUpTo(MaxEqNodes)
    /\ other \in TreesUpTo(MaxEqNodes)
    /\ op = "node" /\ arg = 0 /\ prev = Leaf /\ log = <<>>
    /\ op2 = "none" /\ prev2 = Leaf /\ rotated = FALSE
    /\ vec = <<>> /\ idx = 0 /\ out = <<>> /\ res = FALSE
    /\ list = <<>> /\ pos = 0 /\ at = 0

Eq ==
    /\ op = "node"
    /\ res' = eq(tree, other)
    /\ op' = "eq"
    /\ UNCHANGED <<tree, other, arg, prev, log, op2, prev2, rotated, vec, idx, out, list, pos, at>>

NextEq == Eq

SpecEq == InitEq /\ [][NextEq]_vars

\* The positions of the nodes of a tree, as paths from the root.
RECURSIVE Positions(_)
Positions(t) ==
    IF t = Leaf THEN {}
    ELSE {<<>>} \cup {<<"L">> \o p : p \in Positions(t[2])}
                \cup {<<"R">> \o p : p \in Positions(t[3])}

\* The value stored at position p of t.
RECURSIVE ValueAt(_, _)
ValueAt(t, p) ==
    IF p = <<>> THEN t[1]
    ELSE IF Head(p) = "L" THEN ValueAt(t[2], Tail(p))
    ELSE ValueAt(t[3], Tail(p))

SameShape(a, b) == Positions(a) = Positions(b)

SameShapeAndValues(a, b) ==
    /\ SameShape(a, b)
    /\ \A p \in Positions(a) : ValueAt(a, p) = ValueAt(b, p)

\* C10: two trees compare equal exactly when they have the same shape and
\* the same value at every position; trees holding the same set of values in
\* different shapes compare unequal.
C10_EqualityIsStructural ==
    op = "eq" =>
        /\ res <=> SameShapeAndValues(tree, other)
        /\ (Values(tree) = Values(other) /\ ~SameShape(tree, other)) => ~res

\* The trees built from [1, 2] and from [2, 1] have been compared.
C10_Witness ==
    /\ op = "eq"
    /\ tree = Node(1, Leaf, Node(2, Leaf, Leaf))
    /\ other = Node(2, Node(1, Leaf, Leaf), Leaf)
    /\ ~res

(***************************************************************************)
(* The linked list of src/src/list.rs.                                     *)
(***************************************************************************)
Nil == <<>>

Cons(value, next) == <<value, next>>

\* delete that forgets to write the next node back, so the placeholder that
\* mem::take left stays in place of the remaining elements.
list_delete_leaves_placeholder(node) == Nil

\* ListNode::delete, called on node: the node afterwards.
list_delete(node) ==
    LET as_owned == node
        self0 == Nil
    IN IF as_owned = Nil THEN self0
       ELSE as_owned[2]

\* insert that puts the new node in front of self instead of behind it.
list_insert_before(node, value) ==
    IF node = Nil THEN [node |-> Cons(value, Nil), ret |-> 0]
    ELSE [node |-> Cons(value, node), ret |-> 0]

\* insert that returns the reference it was called on instead of the
\* reference to the new node.
list_insert_returns_self(node, value) ==
    IF node = Nil THEN [node |-> Cons(value, Nil), ret |-> 0]
    ELSE [node |-> Cons(node[1], Cons(value, node[2])), ret |-> 0]

\* ListNode::insert, called on node: the node afterwards, and the returned
\* reference as a number of next links from node (0 is node itself).
list_insert(node, value) ==
    IF node = Nil THEN [node |-> Cons(value, Nil), ret |-> 0]
    ELSE LET taken == node[2]
             new_node == Cons(value, taken)
         IN [node |-> Cons(node[1], new_node), ret |-> 1]

\* The while loop of reverse, from the state (prev, curr) to its end.
RECURSIVE reverse_loop(_, _)
reverse_loop(prv, curr) ==
    IF curr = Nil THEN prv
    ELSE LET next_node == curr[2]
         IN reverse_loop(Cons(curr[1], prv), next_node)

\* reverse that stops one node early and drops the last node.
list_reverse_short(node) ==
    IF node = Nil THEN Nil
    ELSE reverse_loop(Nil, node)[2]

\* ListNode::reverse, called on node: the node afterwards.
list_reverse(node) == reverse_loop(Nil, node)

\* The while loop of Vec::from(list), from the state (vec, cur) to its end.
RECURSIVE into_loop(_, _)
into_loop(v, cur) ==
    IF cur = Nil THEN v
    ELSE into_loop(Append(v, cur[1]), cur[2])

\* impl From<ListNode<T>> for Vec<T>
list_into_vec(l) == into_loop(<<>>, l)

\* The node a reference of depth d into list l designates.
RECURSIVE NodeAt(_, _)
NodeAt(l, d) ==
    IF d = 0 THEN l
    ELSE NodeAt(l[2], d - 1)

\* List l after a write of node n through a reference of depth d.
RECURSIVE Put(_, _, _)
Put(l, d, n) ==
    IF d = 0 THEN n
    ELSE Cons(l[1], Put(l[2], d - 1, n))

\* Observers of lists (not program code).
RECURSIVE ListLen(_)
ListLen(l) ==
    IF l = Nil THEN 0
    ELSE 1 + ListLen(l[2])

\* The elements of a list from the head on.
RECURSIVE Flat(_)
Flat(l) ==
    IF l = Nil THEN <<>>
    ELSE <<l[1]>> \o Flat(l[2])

\* The list holding the elements of a sequence in order.
RECURSIVE ListOf(_)
ListOf(q) ==
    IF q = <<>> THEN Nil
    ELSE Cons(Head(q), ListOf(Tail(q)))

Reversed(q) == [i \in 1..Len(q) |-> q[Len(q) + 1 - i]]

(***************************************************************************)
(* SpecListFrom: ListNode::from(vec) followed by Vec::from(list).  pos is  *)
(* the reference the loop of from holds, idx the number of elements of vec *)
(* inserted so far.  prev is the list before the last call, at the depth   *)
(* of the node it was called on.                                           *)
(***************************************************************************)
InitListFrom ==
    /\ vec \in Vecs
    /\ list = Nil /\ pos = 0 /\ idx = 0 /\ out = <<>>
    /\ op = "new" /\ arg = 0 /\ prev = Nil /\ at = 0
    /\ tree = Leaf /\ other = Leaf /\ log = <<>>
    /\ op2 = "none" /\ prev2 = Leaf /\ rotated = FALSE /\ res = FALSE

\* One iteration of `for elem in vec { pos = pos.insert(elem); }`.
ListFromStep ==
    /\ op \in {"new", "list_insert"}
    /\ idx < Len(vec)
    /\ LET r == list_insert(NodeAt(list, pos), vec[idx + 1])
       IN /\ list' = Put(list, pos, r.node)
          /\ pos' = pos + r.ret
    /\ idx' = idx + 1
    /\ op' = "list_insert" /\ arg' = vec[idx + 1] /\ prev' = list /\ at' = pos
    /\ UNCHANGED <<vec, out, tree, other, log, op2, prev2, rotated, res>>

\* The loop is over: from returns the list and Vec::from consumes it.
ListIntoVec ==
    /\ op \in {"new", "list_insert"}
    /\ idx = Len(vec)
    /\ out' = list_into_vec(list)
    /\ op' = "into"
    /\ UNCHANGED <<vec, idx, list, pos, at, arg, prev, tree, other, log, op2, prev2,
                   rotated, res>>

NextListFrom == ListFromStep \/ ListIntoVec

SpecListFrom == InitListFrom /\ [][NextListFrom]_vars

\* C11: Vec::from(ListNode::from(v)) is v itself: same elements, same order,
\* same length, for every v (empty and with repeats included).
C11_ListRoundTrip ==
    op = "into" => (out = vec /\ Len(out) = Len(vec))

\* A vector of four elements with a repeated value, not in ascending order,
\* has made the round trip.
C11_Witness ==
    /\ op = "into"
    /\ Len(vec) = 4
    /\ Cardinality(Range(vec)) = 3
    /\ vec[1] > vec[2]
    /\ out = vec

(***************************************************************************)
(* SpecList: insert and delete called through a reference to any node of   *)
(* an arbitrary list (the Nil node at its end included), and reverse       *)
(* called on its head.  Lists hold at most MaxLen elements of AnyVals.     *)
(***************************************************************************)
RECURSIVE AnySeqsOfLen(_)
AnySeqsOfLen(n) ==
    IF n = 0 THEN {<<>>}
    ELSE {Append(q, v) : q \in AnySeqsOfLen(n - 1), v \in AnyVals}

Lists == {ListOf(q) : q \in UNION {AnySeqsOfLen(n) : n \in 0..MaxLen}}

InitList ==
    /\ list \in Lists
    /\ pos = 0 /\ at = 0
    /\ op = "new" /\ arg = 0 /\ prev = Nil
    /\ op2 = "none" /\ prev2 = Nil
    /\ tree = Leaf /\ other = Leaf /\ log = <<>> /\ rotated = FALSE
    /\ vec = <<>> /\ idx = 0 /\ out = <<>> /\ res = FALSE

ListInsert(d, v) ==
    /\ ListLen(list) < MaxLen
    /\ LET r == list_insert(NodeAt(list, d), v)
       IN /\ list' = Put(list, d, r.node)
          /\ pos' = d + r.ret
    /\ op' = "list_insert" /\ arg' = v /\ prev' = list /\ at' = d
    /\ op2' = op /\ prev2' = prev
    /\ UNCHANGED <<tree, other, log, rotated, vec, idx, out, res>>

ListDelete(d) ==
    /\ list' = Put(list, d, list_delete(NodeAt(list, d)))
    /\ pos' = d
    /\ op' = "list_delete" /\ arg' = 0 /\ prev' = list /\ at' = d
    /\ op2' = op /\ prev2' = prev
    /\ UNCHANGED <<tree, other, log, rotated, vec, idx, out, res>>

ListReverse ==
    /\ list' = list_reverse(list)
    /\ pos' = 0
    /\ op' = "list_reverse" /\ arg' = 0 /\ prev' = list /\ at' = 0
    /\ op2' = op /\ prev2' = prev
    /\ UNCHANGED <<tree, other, log, rotated, vec, idx, out, res>>

NextList ==
    \/ \E d \in 0..ListLen(list) : \E v \in AnyVals : ListInsert(d, v)
    \/ \E d \in 0..ListLen(list) : ListDelete(d)
    \/ ListReverse

SpecList == InitList /\ [][NextList]_vars

\* C12: reverse turns a list with elements x1..xn into the list with
\* elements xn..x1, losing and duplicating nothing; applied twice it restores
\* the original list; on Nil it leaves Nil.
C12_ReverseReverses ==
    op = "list_reverse" =>
        /\ Flat(list) = Reversed(Flat(prev))
        /\ ListLen(list) = ListLen(prev)
        /\ prev = Nil => list = Nil
        /\ op2 = "list_reverse" => list = prev2

\* A second reverse in a row of a list of at least three elements that is not
\* its own mirror image.
C12_Witness ==
    /\ op = "list_reverse" /\ op2 = "list_reverse"
    /\ ListLen(prev2) >= 3
    /\ prev # prev2
    /\ list = prev2

\* Sequence q with value v put in after its first k elements.
InsertedAfter(q, k, v) == SubSeq(q, 1, k) \o <<v>> \o SubSeq(q, k + 1, Len(q))

\* C13: insert on Cons(x, rest) makes the node Cons(x, Cons(value, rest)) and
\* returns a reference to Cons(value, rest); on Nil it makes the node
\* Cons(value, Nil) and returns a reference to that node.  The elements before
\* and after the new one keep their order.
C13_InsertAfter ==
    op = "list_insert" =>
        LET node == NodeAt(prev, at)
        IN IF node = Nil
           THEN /\ NodeAt(list, at) = Cons(arg, Nil)
                /\ pos = at
                /\ Flat(list) = InsertedAfter(Flat(prev), at, arg)
           ELSE /\ NodeAt(list, at) = Cons(node[1], Cons(arg, node[2]))
                /\ pos = at + 1
                /\ NodeAt(list, pos) = Cons(arg, node[2])
                /\ Flat(list) = InsertedAfter(Flat(prev), at + 1, arg)

\* An insert through a reference to an inner Cons node that has elements
\* before and after it.
C13_Witness ==
    /\ op = "list_insert"
    /\ at >= 1
    /\ ListLen(prev) >= at + 2
    /\ NodeAt(prev, at)[1] # arg
    /\ pos = at + 1

\* C14: delete on Cons(x, rest) leaves rest at the position (the flattened
\* sequence loses that one element and nothing else changes); on Nil it
\* leaves Nil.
C14_DeleteRemovesNode ==
    op = "list_delete" =>
        LET node == NodeAt(prev, at)
            q == Flat(prev)
        IN IF node = Nil
           THEN list = prev /\ NodeAt(list, at) = Nil
           ELSE /\ NodeAt(list, at) = node[2]
                /\ Flat(list) = SubSeq(q, 1, at) \o SubSeq(q, at + 2, Len(q))

\* A delete of an inner node that has elements before and after it.
C14_Witness ==
    /\ op = "list_delete"
    /\ at >= 1
    /\ ListLen(prev) >= at + 2
    /\ ListLen(list) = ListLen(prev) - 1

(***************************************************************************)
(* Properties of the calls one insert makes (Spec).                        *)
(***************************************************************************)
\* The subtree of t at position p.
RECURSIVE SubtreeAt(_, _)
SubtreeAt(t, p) ==
    IF p = <<>> THEN t
    ELSE IF Head(p) = "L" THEN SubtreeAt(t[2], Tail(p))
    ELSE SubtreeAt(t[3], Tail(p))

\* The rebalance calls of a log, in order.
RebalanceCalls(l) == SelectSeq(l, LAMBDA c : c.ev = "rebalance")

\* C15: in an insert into a tree grown from empty by inserts, every call of
\* rebalance is on a node whose own balance factor is beyond 1 in absolute
\* value; the do-nothing branch of rebalance is never taken.
C15_RebalanceOnlyOnUnbalancedNode ==
    op = "insert" =>
        \A i \in DOMAIN log :
            log[i].ev = "rebalance" => Abs(log[i].bf) > 1

\* An insert that called rebalance on a node below the root.
C15_Witness ==
    /\ op = "insert"
    /\ \E i \in DOMAIN log :
        /\ log[i].ev = "rebalance"
        /\ log[i].path # <<>>
        /\ log[i].bf = 2

\* Plain binary-search-tree insertion, without any rebalancing.
RECURSIVE RawInsert(_, _)
RawInsert(t, v) ==
    IF t = Leaf THEN Node(v, Leaf, Leaf)
    ELSE IF t[1] < v THEN Node(t[1], t[2], RawInsert(t[3], v))
    ELSE IF t[1] > v THEN Node(t[1], RawInsert(t[2], v), t[3])
    ELSE t

\* The positions of the nodes of t whose own balance factor is beyond 1.
UnbalancedAt(t) ==
    {p \in Positions(t) :
        Abs(height(SubtreeAt(t, p)[2]) - height(SubtreeAt(t, p)[3])) > 1}

\* C19: one insert calls rebalance on at most one node, the lowest node that
\* the insertion left unbalanced, and makes at most two rotations; no node
\* above it is rebalanced in the same insert.
C19_AtMostOneRebalance ==
    op = "insert" =>
        LET bad == UnbalancedAt(RawInsert(prev, arg))
            calls == RebalanceCalls(log)
        IN /\ Len(calls) <= 1
           /\ Len(Rotations(log)) <= 2
           /\ bad = {} => log = <<>>
           /\ bad # {} =>
                /\ Len(calls) = 1
                /\ calls[1].path \in bad
                /\ \A p \in bad : Len(p) <= Len(calls[1].path)

\* An insert that left two nodes of the search path unbalanced and rebalanced
\* the lower one with a double rotation.
C19_Witness ==
    /\ op = "insert"
    /\ Cardinality(UnbalancedAt(RawInsert(prev, arg))) >= 2
    /\ Len(RebalanceCalls(log)) = 1
    /\ Len(Rotations(log)) = 2

\* C20: one insert changes the height of the whole tree by 0 or +1, and the
\* subtree of every node it rebalanced has afterwards the height it had
\* before the insert.
C20_HeightChange ==
    op = "insert" =>
        /\ height(tree) - height(prev) \in {0, 1}
        /\ \A i \in DOMAIN log :
            log[i].ev = "rebalance" =>
                height(SubtreeAt(tree, log[i].path)) = height(SubtreeAt(prev, log[i].path))

\* An insert that rebalanced a node below the root of a tree of height 3.
C20_Witness ==
    /\ op = "insert"
    /\ height(prev) = 3
    /\ \E i \in DOMAIN log :
        /\ log[i].ev = "rebalance"
        /\ log[i].path # <<>>
        /\ height(SubtreeAt(prev, log[i].path)) = 2

(***************************************************************************)
(* Properties of the rotations.                                            *)
(***************************************************************************)
\* The number of times x occurs in sequence q.
Occurrences(q, x) == Cardinality({i \in DOMAIN q : q[i] = x})

\* Whether trees a and b hold the same values the same number of times.
SameValueCounts(a, b) ==
    /\ Size(a) = Size(b)
    /\ \A x \in Values(a) \cup Values(b) :
        Occurrences(InOrder(a), x) = Occurrences(InOrder(b), x)

\* C16 (SpecAny): left_rotate on Node(v, A, Node(rv, B, C)) yields
\* Node(rv, Node(v, A, B), C) and right_rotate on Node(v, Node(lv, A, B), C)
\* yields Node(lv, A, Node(v, B, C)); every value and subtree occurs once in
\* the result.
C16_RotationShape ==
    /\ (op = "left_rotate" /\ ~Misapplied(op, prev)) =>
        /\ tree[1] = prev[3][1]
        /\ SubtreeAt(tree, <<"L">>)[1] = prev[1]
        /\ SubtreeAt(tree, <<"L", "L">>) = prev[2]
        /\ SubtreeAt(tree, <<"L", "R">>) = prev[3][2]
        /\ SubtreeAt(tree, <<"R">>) = prev[3][3]
        /\ SameValueCounts(tree, prev)
    /\ (op = "right_rotate" /\ ~Misapplied(op, prev)) =>
        /\ tree[1] = prev[2][1]
        /\ SubtreeAt(tree, <<"L">>) = prev[2][2]
        /\ SubtreeAt(tree, <<"R">>)[1] = prev[1]
        /\ SubtreeAt(tree, <<"R", "L">>) = prev[2][3]
        /\ SubtreeAt(tree, <<"R", "R">>) = prev[3]
        /\ SameValueCounts(tree, prev)

\* A left_rotate of a node whose subtrees A and B are not empty and differ.
C16_Witness ==
    /\ op = "left_rotate"
    /\ ~Misapplied(op, prev)
    /\ prev[2] # Leaf
    /\ prev[3][2] # Leaf
    /\ prev[2] # prev[3][2]
    /\ tree # prev

\* C18 (SpecRot): insert(v) changes the set of stored values from S to
\* S \cup {v}, the node count by 1 if v was absent and by 0 otherwise; a
\* rotation leaves the set, the node count and every value's count
\* unchanged, so no position is left empty by a rotation placeholder.
C18_NoValueLost ==
    /\ op = "insert" =>
        /\ Values(tree) = Values(prev) \cup {arg}
        /\ Size(tree) = Size(prev) + (IF arg \in Values(prev) THEN 0 ELSE 1)
        /\ \A x \in Values(prev) :
            Occurrences(InOrder(tree), x) = Occurrences(InOrder(prev), x)
    /\ op \in {"left_rotate", "right_rotate"} =>
        /\ Values(tree) = Values(prev)
        /\ SameValueCounts(tree, prev)

\* An insert of a new value that rotated, after a public rotation has
\* reshaped the tree.
C18_Witness ==
    /\ op = "insert"
    /\ rotated
    /\ arg \notin Values(prev)
    /\ Len(Rotations(log)) >= 1
    /\ Size(tree) = Size(prev) + 1
    /\ Size(tree) >= 4

(***************************************************************************)
(* SpecValidate: validate called on an arbitrary tree built with the node  *)
(* constructor.                                                            *)
(***************************************************************************)
RECURSIVE ValidateTreesOfSize(_)
ValidateTreesOfSize(n) ==
    IF n = 0 THEN {Leaf}
    ELSE UNION {{Node(v, l, r) : v \in 1..MaxValidateVal,
                                 l \in ValidateTreesOfSize(k),
                                 r \in ValidateTreesOfSize(n - 1 - k)} : k \in 0..(n - 1)}

\* The binary search trees of n nodes holding the values lo..lo+n-1, one for
\* every shape.
RECURSIVE SearchTreesOfSize(_, _)
SearchTreesOfSize(n, lo) ==
    IF n = 0 THEN {Leaf}
    ELSE UNION {{Node(lo + k, l, r) : l \in SearchTreesOfSize(k, lo),
                                      r \in SearchTreesOfSize(n - 1 - k, lo + k + 1)}
                : k \in 0..(n - 1)}

InitValidate ==
    /\ tree \in UNION {ValidateTreesOfSize(k) : k \in 0..MaxValidateNodes}
                \cup UNION {SearchTreesOfSize(k, 1) : k \in 0..MaxShapeNodes}
    /\ op = "node" /\ arg = 0 /\ prev = Leaf /\ log = <<>>
    /\ Idle

Validate ==
    /\ op = "node"
    /\ res' = validate(tree)
    /\ op' = "validate"
    /\ UNCHANGED <<tree, other, arg, prev, log, op2, prev2, rotated, vec, idx, out,
                   list, pos, at>>

NextValidate == Validate

SpecValidate == InitValidate /\ [][NextValidate]_vars

\* Whether every node's value lies strictly between those of its two
\* children, where it has them.
DirectChildrenOrdered(t) ==
    \A n \in Subtrees(t) :
        /\ n[2] # Leaf => n[2][1] < n[1]
        /\ n[3] # Leaf => n[3][1] > n[1]

\* C17: validate() returns true exactly when every node's value is greater
\* than every value of its left subtree and less than every value of its
\* right subtree, and the heights of the two subtrees of every node differ by
\* at most 1.
C17_ValidateIsExact ==
    op = "validate" => (res <=> (BstInvariant(tree) /\ BalanceInvariant(tree)))

\* validate has rejected a tree that is balanced at every node and ordered
\* between every node and its children, for a value deeper in a subtree.
C17_Witness ==
    /\ op = "validate"
    /\ ~res
    /\ BalanceInvariant(tree)
    /\ DirectChildrenOrdered(tree)

====
